---------------------------- MODULE Spec2Model ----------------------------
(***************************************************************************)
(* Model of the asynchronous analysis task lifecycle of the AI server:     *)
(* submission (api/v1/endpoints/solo.py), the background orchestrator      *)
(* (services/analysis_service.py) with its two reasoning-provider branches *)
(* (services/scoring_service.py, services/feedback_service.py), and        *)
(* polling; and of the knowledge endpoints (api/v1/endpoints/knowledge.py) *)
(* with the refinement pipeline and the evaluation engine                  *)
(* (services/knowledge_service.py) and the embedding service               *)
(* (services/embedding_service.py).                                        *)
(*                                                                         *)
(* Scheduling: every handler and the orchestrator are coroutines on one    *)
(* event loop.  Code between two awaits runs without interleaving, so an   *)
(* action of the model is one such segment.                                *)
(*                                                                         *)
(* Scope: the reasoning-provider clients are configured (GEMINI_API_KEY is *)
(* set, so ScoringService.model / FeedbackService.model exist), and the    *)
(* requests are those that pass the framework's schema validation and      *)
(* reach the endpoint functions.                                           *)
(*                                                                         *)
(* Texts (user text, error text) are sequences of one-character strings.   *)
(* Optional values are sequences of length 0 (None) or 1.                  *)
(* Korean message literals of the source are written as ASCII tags.        *)
(***************************************************************************)
EXTENDS Integers, Sequences, FiniteSets, TLC

VARIABLES
    store,      \* the task store: string key -> record
    runs,       \* the background orchestrator runs, in order of registration
    resp,       \* the response of the latest poll (None before the first)
    model,      \* EmbeddingService.model is loaded
    refine,     \* the latest refine_candidates_batch request (None before the first)
    evaluation  \* the latest evaluate_knowledge request (None before the first)

lifecycle_vars == <<store, runs, resp>>

knowledge_vars == <<model, refine, evaluation>>

vars == <<store, runs, resp, model, refine, evaluation>>

---------------------------------------------------------------------------
(* Bounds and input samples *)

MaxRuns == 2

Keys == {1, 2}

None == <<>>

Some(x) == <<x>>

\* raw length 2, as in the spec's end-to-end scenario
T_hi == <<"h", "i">>

\* raw length 6, trimmed length 4
T_abcd == <<" ", "a", "b", "c", "d", " ">>

\* raw length 7, trimmed length 5
T_abcde == <<" ", "a", "b", "c", "d", "e", "\n">>

UserTexts == {T_hi, T_abcd, T_abcde}

\* criteria is a dict; it is modelled by its set of keys
CriteriaSamples == {{}, {"accuracy"}}

HistorySamples == {<<>>, <<"h1">>}

E_gemini == <<"G", "e", "m", "i", "n", "i", " ", "4", "2", "9">>

E_vector == <<"V", "e", "c", "t", "o", "r">>

E_json == <<"E", "x", "p", "e", "c", "t", "i", "n", "g">>

\* str(e) of the AttributeError raised by ErrorCode.INVALID_CRITERIA
E_attr == <<"I", "N", "V", "A", "L", "I", "D", "_", "C", "R", "I", "T", "E", "R", "I", "A">>

ErrSamples == {E_gemini, E_vector, E_json}

\* parsed JSON objects the reasoning provider may return for scoring
J_good == [overall_score |-> 85, level |-> 3]

J_wild == [overall_score |-> 150, level |-> 9]

J_empty == [other |-> 0]

ScoreJson == {J_good, J_wild, J_empty}

\* parsed JSON objects the reasoning provider may return for feedback
F_full == [summarize |-> "s1", keyword |-> <<"k1">>, personalized |-> "p1"]

F_other == [summarize |-> "s2"]

FeedbackJson == {F_full, F_other}

---------------------------------------------------------------------------
(* Pure helpers *)

Whitespace == {" ", "\t", "\n"}

RECURSIVE LStrip(_)
LStrip(s) ==
    IF s # <<>> /\ Head(s) \in Whitespace THEN LStrip(Tail(s)) ELSE s

RECURSIVE RStrip(_)
RStrip(s) ==
    IF s # <<>> /\ s[Len(s)] \in Whitespace
    THEN RStrip(SubSeq(s, 1, Len(s) - 1))
    ELSE s

Strip(s) == RStrip(LStrip(s))

LowerOf == [A |-> "a", B |-> "b", C |-> "c", D |-> "d", E |-> "e", G |-> "g",
            I |-> "i", L |-> "l", M |-> "m", N |-> "n", O |-> "o", P |-> "p",
            R |-> "r", T |-> "t", V |-> "v", X |-> "x"]

LowerChar(c) == IF c \in DOMAIN LowerOf THEN LowerOf[c] ELSE c

Lower(s) == [i \in 1..Len(s) |-> LowerChar(s[i])]

\* `sub in s`
Contains(sub, s) ==
    \E t \in {s} :
        \E i \in 0..(Len(t) - Len(sub)) : SubSeq(t, i + 1, i + Len(sub)) = sub

\* str(attempt_id): the store is keyed by the string form of the attempt id
StrKey(k) == <<"str", k>>

\* dict.get(key, default) on a parsed JSON object
DictGet(d, key, default) == IF key \in DOMAIN d THEN d[key] ELSE default

---------------------------------------------------------------------------
(* Task store and task service.  Contract of spec section 4.1:             *)
(* create(key, initial_status), update(key, status, result?, error?),      *)
(* get(key); every operation is atomic and writes a whole record.          *)

TaskRecord(status, result, error) ==
    [status |-> status, result |-> result, error |-> error]

\* task_store.save_task(task_id, status, result=None, error=None)
SaveTask(st, key, status, result, error) ==
    [k \in DOMAIN st \cup {key} |->
        IF k = key THEN TaskRecord(status, result, error) ELSE st[k]]

\* task_store get: the record, or None for an absent key
GetTask(st, key) == IF key \in DOMAIN st THEN Some(st[key]) ELSE None

\* task_service.create_task(attempt_id): always creates a PENDING record
CreateTask(st, attempt_id) == SaveTask(st, StrKey(attempt_id), "PENDING", None, None)

\* task_service.get_task_status(attempt_id)
GetTaskStatus(st, attempt_id) == GetTask(st, StrKey(attempt_id))

---------------------------------------------------------------------------
(* Reasoning-provider branches *)

\* ScoringService.evaluate after the provider returned: result.get with defaults
ScoringResult(json) ==
    [overall_score |-> DictGet(json, "overall_score", 0),
     level |-> DictGet(json, "level", 1)]

\* FeedbackService.generate_feedback after the provider returned: the parsed object
FeedbackResult(json) == json

\* a branch (coroutine) of one run: st is "none" before the coroutine exists,
\* "new" once created, "calling" while the provider call is awaited,
\* then "ok" (val holds the return value) or "failed"
Branch(st, val) == [st |-> st, val |-> val]

NoBranch == Branch("none", None)

---------------------------------------------------------------------------
(* Analysis orchestrator *)

\* the hardcoded result of the short-text path
ShortTextResult ==
    [overall_score |-> 0,
     level |-> 1,
     feedback |-> [summarize |-> "MSG_TOO_SHORT_OR_UNRECOGNIZED",
                   keyword |-> <<"KW_STT_FAILED", "KW_SHORT_ANSWER">>,
                   facts |-> "MSG_NOT_ENOUGH_TEXT",
                   understanding |-> "MSG_INTENT_UNCLEAR",
                   personalized |-> "MSG_SPEAK_LONGER_OR_RETRY"]]

\* `not criteria`
NotCriteria(criteria) == criteria = {}

\* variant: the length test without strip()
TextTooShort_NoStrip(user_text) == Len(user_text) < 5

\* `len(user_text.strip()) < 5`
TextTooShort(user_text) == Len(Strip(user_text)) < 5

\* variant: the embedding family is tested first
ClassifyError_EmbeddingFirst(text) ==
    LET error_msg == Lower(text) IN
    IF Contains(<<"e", "m", "b", "e", "d", "d", "i", "n", "g">>, error_msg)
         \/ Contains(<<"v", "e", "c", "t", "o", "r">>, error_msg)
    THEN "EMBEDDING_FAILURE"
    ELSE IF Contains(<<"l", "l", "m">>, error_msg)
              \/ Contains(<<"g", "e", "m", "i", "n", "i">>, error_msg)
              \/ Contains(<<"5", "0", "0">>, error_msg)
         THEN "LLM_PROVIDER_ERROR"
         ELSE "INTERNAL_ERROR"

\* the except handler's classification of str(e).lower()
ClassifyError(text) ==
    LET error_msg == Lower(text) IN
    IF Contains(<<"l", "l", "m">>, error_msg)
         \/ Contains(<<"g", "e", "m", "i", "n", "i">>, error_msg)
         \/ Contains(<<"5", "0", "0">>, error_msg)
    THEN "LLM_PROVIDER_ERROR"
    ELSE IF Contains(<<"e", "m", "b", "e", "d", "d", "i", "n", "g">>, error_msg)
              \/ Contains(<<"v", "e", "c", "t", "o", "r">>, error_msg)
         THEN "EMBEDDING_FAILURE"
         ELSE "INTERNAL_ERROR"

\* variant: the exception text is put into the message
FailureError_LeaksText(text) ==
    [code |-> ClassifyError(text), message |-> text]

\* the error dict the except handler stores
FailureError(text) ==
    LET code == ClassifyError(text) IN
    [code |-> code, message |-> <<"MSG_ANALYSIS_FAILED", code>>]

\* variant: the two scoring fields exchanged
AggregateResult_Swapped(score_result, feedback_result) ==
    [overall_score |-> score_result.level,
     level |-> score_result.overall_score,
     feedback |-> feedback_result]

\* the aggregate of step 3
AggregateResult(score_result, feedback_result) ==
    [overall_score |-> score_result.overall_score,
     level |-> score_result.level,
     feedback |-> feedback_result]

\* variant: the run does not write PROCESSING
SaveProcessing_Skipped(st, task_id) == st

\* the three store writes of analyze_text_background
SaveProcessing(st, task_id) == SaveTask(st, task_id, "PROCESSING", None, None)

\* variant: the COMPLETED write without its result argument
SaveCompleted_DropsResult(st, task_id, final_result) ==
    SaveTask(st, task_id, "COMPLETED", None, None)

SaveCompleted(st, task_id, final_result) ==
    SaveTask(st, task_id, "COMPLETED", Some(final_result), None)

\* variant: the FAILED write without its error argument
SaveFailed_DropsError(st, task_id, text) ==
    SaveTask(st, task_id, "FAILED", None, None)

SaveFailed(st, task_id, text) ==
    SaveTask(st, task_id, "FAILED", None, Some(FailureError(text)))

\* variant: no short-text path
ValidationOutcome_NoShortPath(user_text, criteria) ==
    IF NotCriteria(criteria) THEN "raise" ELSE "launch"

\* variant: no criteria check
ValidationOutcome_NoCriteriaCheck(user_text, criteria) ==
    IF TextTooShort(user_text) THEN "short" ELSE "launch"

\* what the code between the PROCESSING write and the first await does:
\* "raise": building the error dict evaluates ErrorCode.INVALID_CRITERIA, which
\*          is no member of ErrorCode, so AttributeError is raised before
\*          save_task is called and the except handler runs;
\* "short": the hardcoded result is stored;
\* "launch": the two coroutines are created and gathered
ValidationOutcome(user_text, criteria) ==
    IF NotCriteria(criteria) THEN "raise"
    ELSE IF TextTooShort(user_text) THEN "short"
    ELSE "launch"

\* the response of submit_analysis after create_task and add_task
SubmissionAccepted(attempt_id) ==
    [http |-> 202, success |-> TRUE,
     data |-> Some([attemptId |-> attempt_id, status |-> "PENDING"]),
     error |-> None]

\* one registered background task: the arguments of add_task, the position
\* of the orchestrator (pc), its two branches, the first exception gather
\* raised to it (exc), and history variables: the records this run wrote
\* (writes), the provider calls it issued (calls), the response its
\* submission got (ack)
NewRun(attempt_id, user_text, criteria, history) ==
    [task_id |-> StrKey(attempt_id),
     user_text |-> user_text,
     criteria |-> criteria,
     history |-> history,
     pc |-> "queued",
     score |-> NoBranch,
     feedback |-> NoBranch,
     exc |-> None,
     writes |-> <<>>,
     calls |-> [scoring |-> 0, feedback |-> 0],
     ack |-> SubmissionAccepted(attempt_id)]

RunIds == 1..Len(runs)

\* variant: the orchestrator is resumed only with both results
GatherReady_IgnoresFailure(run) ==
    /\ run.pc = "gather"
    /\ run.score.st = "ok" /\ run.feedback.st = "ok"

\* asyncio.gather has an outcome for the awaiting orchestrator: the first
\* exception, or both results.  The orchestrator's wake-up is queued behind the
\* first step of both branch tasks, so both provider calls were issued by then.
GatherReady(run) ==
    /\ run.pc = "gather"
    /\ run.score.st # "new" /\ run.feedback.st # "new"
    /\ \/ run.exc # None
       \/ run.score.st = "ok" /\ run.feedback.st = "ok"

\* the store after the orchestrator resumed from gather
JoinStore(st, run) ==
    IF run.exc # None
    THEN SaveFailed(st, run.task_id, run.exc[1])
    ELSE SaveCompleted(st, run.task_id,
                       AggregateResult(run.score.val[1], run.feedback.val[1]))

\* the store after the code from the PROCESSING write to the first await
StartStore(st, run) ==
    LET st1 == SaveProcessing(st, run.task_id)
        out == ValidationOutcome(run.user_text, run.criteria) IN
    CASE out = "raise" -> SaveFailed(st1, run.task_id, E_attr)
      [] out = "short" -> SaveCompleted(st1, run.task_id, ShortTextResult)
      [] out = "launch" -> st1

---------------------------------------------------------------------------
(* Polling *)

\* variant: an absent task is answered like a pending one
GetAnalysisResult_NoNotFound(st, attempt_id) ==
    LET task_data == GetTaskStatus(st, attempt_id) IN
    [http |-> 200, success |-> TRUE, attemptId |-> attempt_id,
     data |-> Some([attemptId |-> attempt_id,
                    status |-> IF task_data = None THEN "PENDING" ELSE task_data[1].status,
                    result |-> IF task_data = None THEN None ELSE task_data[1].result]),
     error |-> None]

\* get_analysis_result
GetAnalysisResult(st, attempt_id) ==
    LET task_data == GetTaskStatus(st, attempt_id) IN
    IF task_data = None
    THEN [http |-> 404, success |-> FALSE, attemptId |-> attempt_id, data |-> None,
          error |-> Some([code |-> "TASK_NOT_FOUND",
                          message |-> "MSG_TASK_NOT_FOUND_OR_EXPIRED",
                          detail |-> [attemptId |-> attempt_id]])]
    ELSE IF task_data[1].status = "FAILED"
    THEN [http |-> 200, success |-> FALSE, attemptId |-> attempt_id,
          data |-> Some([attemptId |-> attempt_id, status |-> "FAILED", result |-> None]),
          error |-> task_data[1].error]
    ELSE [http |-> 200, success |-> TRUE, attemptId |-> attempt_id,
          data |-> Some([attemptId |-> attempt_id, status |-> task_data[1].status,
                         result |-> task_data[1].result]),
          error |-> None]

---------------------------------------------------------------------------
(* State machine *)

Init ==
    /\ store = [k \in {} |-> None]
    /\ runs = <<>>
    /\ resp = None
    /\ model = FALSE
    /\ refine = None
    /\ evaluation = None

\* submit_analysis: create the PENDING record, register the background task
Submit(attempt_id, user_text, criteria, history) ==
    /\ Len(runs) < MaxRuns
    /\ store' = CreateTask(store, attempt_id)
    /\ runs' = Append(runs, NewRun(attempt_id, user_text, criteria, history))
    /\ UNCHANGED <<resp, knowledge_vars>>

\* analyze_text_background from its start to its first await or its return
StartRun(r) ==
    /\ runs[r].pc = "queued"
    /\ LET run == runs[r]
           out == ValidationOutcome(run.user_text, run.criteria)
           st1 == SaveProcessing(store, run.task_id)
           st2 == StartStore(store, run)
           w == IF out = "launch"
                THEN <<st1[run.task_id]>>
                ELSE <<st1[run.task_id], st2[run.task_id]>> IN
       /\ store' = st2
       /\ runs' = [runs EXCEPT ![r] =
                     [run EXCEPT !.pc = IF out = "launch" THEN "gather" ELSE "done",
                                 !.score = IF out = "launch" THEN Branch("new", None) ELSE @,
                                 !.feedback = IF out = "launch" THEN Branch("new", None) ELSE @,
                                 !.writes = @ \o w]]
    /\ UNCHANGED <<resp, knowledge_vars>>

\* ScoringService.evaluate up to its await: the prompt is built, the call issued
ScoreCall(r) ==
    /\ runs[r].score.st = "new"
    /\ runs' = [runs EXCEPT ![r].score.st = "calling", ![r].calls.scoring = @ + 1]
    /\ UNCHANGED <<store, resp, knowledge_vars>>

\* FeedbackService.generate_feedback up to its await; gather schedules the
\* scoring task first, so its first step has run by then
FeedbackCall(r) ==
    /\ runs[r].feedback.st = "new"
    /\ runs[r].score.st # "new"
    /\ runs' = [runs EXCEPT ![r].feedback.st = "calling", ![r].calls.feedback = @ + 1]
    /\ UNCHANGED <<store, resp, knowledge_vars>>

\* variant: gather does not hand a branch's exception to the orchestrator
Raised_Dropped(run, text) == run.exc

\* variant: a later exception replaces the first
Raised_LastWins(run, text) ==
    IF run.pc = "gather" THEN Some(text) ELSE run.exc

\* gather hands the first exception of a branch to the waiting orchestrator;
\* later exceptions, and exceptions after the orchestrator left, are dropped
Raised(run, text) ==
    IF run.pc = "gather" /\ run.exc = None THEN Some(text) ELSE run.exc

\* gather keeps a branch's return value only while it can still hand both
\* values to the orchestrator
Returned(run, value) ==
    IF run.pc = "gather" /\ run.exc = None THEN Some(value) ELSE None

\* the scoring call returns a parsable object: evaluate returns
ScoreReturn(r, json) ==
    /\ runs[r].score.st = "calling"
    /\ runs' = [runs EXCEPT ![r].score = Branch("ok", Returned(runs[r], ScoringResult(json)))]
    /\ UNCHANGED <<store, resp, knowledge_vars>>

\* the scoring call raises, or its text does not parse: evaluate re-raises;
\* gather will not hand out the other branch's value any more
ScoreRaise(r, text) ==
    /\ runs[r].score.st = "calling"
    /\ runs' = [runs EXCEPT ![r].score = Branch("failed", None),
                            ![r].feedback.val = None,
                            ![r].exc = Raised(runs[r], text)]
    /\ UNCHANGED <<store, resp, knowledge_vars>>

FeedbackReturn(r, json) ==
    /\ runs[r].feedback.st = "calling"
    /\ runs' = [runs EXCEPT ![r].feedback = Branch("ok", Returned(runs[r], FeedbackResult(json)))]
    /\ UNCHANGED <<store, resp, knowledge_vars>>

FeedbackRaise(r, text) ==
    /\ runs[r].feedback.st = "calling"
    /\ runs' = [runs EXCEPT ![r].feedback = Branch("failed", None),
                            ![r].score.val = None,
                            ![r].exc = Raised(runs[r], text)]
    /\ UNCHANGED <<store, resp, knowledge_vars>>

\* the orchestrator resumes from gather: aggregate and COMPLETED, or except and FAILED
Join(r) ==
    /\ GatherReady(runs[r])
    /\ store' = JoinStore(store, runs[r])
    /\ runs' = [runs EXCEPT ![r].pc = "done",
                            ![r].exc = None,
                            ![r].writes = Append(@, store'[runs[r].task_id])]
    /\ UNCHANGED <<resp, knowledge_vars>>

\* get_analysis_result for one attempt id
Poll(attempt_id) ==
    /\ resp' = Some(GetAnalysisResult(store, attempt_id))
    /\ UNCHANGED <<store, runs, knowledge_vars>>

Next ==
    \/ \E k \in Keys, t \in UserTexts, c \in CriteriaSamples, h \in HistorySamples :
          Submit(k, t, c, h)
    \/ \E r \in RunIds : StartRun(r)
    \/ \E r \in RunIds : ScoreCall(r)
    \/ \E r \in RunIds : FeedbackCall(r)
    \/ \E r \in RunIds, j \in ScoreJson : ScoreReturn(r, j)
    \/ \E r \in RunIds, e \in ErrSamples : ScoreRaise(r, e)
    \/ \E r \in RunIds, j \in FeedbackJson : FeedbackReturn(r, j)
    \/ \E r \in RunIds, e \in ErrSamples : FeedbackRaise(r, e)
    \/ \E r \in RunIds : Join(r)
    \/ \E k \in Keys : Poll(k)

Spec == Init /\ [][Next]_vars

---------------------------------------------------------------------------
(* The same state machine over fewer input samples, with the scheduling     *)
(* guarantees: the event loop runs every ready step (a registered           *)
(* background task is started, a created branch task gets its first step,   *)
(* a finished gather resumes the orchestrator).  That every provider call   *)
(* returns or raises is the hypothesis of the progress claim; polling is    *)
(* not required to happen.                                                  *)

LiveTexts == {T_hi, T_abcde}

LiveErrs == {E_json}

ProviderAnswersScoring(r) ==
    \/ ScoreReturn(r, J_good)
    \/ \E e \in LiveErrs : ScoreRaise(r, e)

ProviderAnswersFeedback(r) ==
    \/ FeedbackReturn(r, F_full)
    \/ \E e \in LiveErrs : FeedbackRaise(r, e)

LiveNext ==
    \/ \E k \in Keys, t \in LiveTexts, c \in CriteriaSamples : Submit(k, t, c, <<>>)
    \/ \E r \in RunIds : StartRun(r)
    \/ \E r \in RunIds : ScoreCall(r)
    \/ \E r \in RunIds : FeedbackCall(r)
    \/ \E r \in RunIds : ProviderAnswersScoring(r)
    \/ \E r \in RunIds : ProviderAnswersFeedback(r)
    \/ \E r \in RunIds : Join(r)
    \/ \E k \in Keys : Poll(k)

\* one step of run r, whichever is ready
RunStep(r) ==
    /\ r \in RunIds
    /\ \/ StartRun(r)
       \/ ScoreCall(r)
       \/ FeedbackCall(r)
       \/ ProviderAnswersScoring(r)
       \/ ProviderAnswersFeedback(r)
       \/ Join(r)

Fairness == \A r \in 1..MaxRuns : WF_vars(RunStep(r))

LiveSpec == Init /\ [][LiveNext]_vars /\ Fairness

---------------------------------------------------------------------------
(* Properties of the task lifecycle *)

Terminal == {"COMPLETED", "FAILED"}

Statuses == {"PENDING", "PROCESSING", "COMPLETED", "FAILED"}

Last(seq) == seq[Len(seq)]

\* the claims' own reading of "trimmed length < 5" and "criteria empty or missing"
TrimmedShort(text) == Len(Strip(text)) < 5

NoCriteria(criteria) == Cardinality(criteria) = 0

Done(r) == runs[r].pc = "done"

\* the run went through gather: its two branches were created
Launched(r) == runs[r].score.st # "none"

\* C1: once a record is COMPLETED or FAILED, no step changes its status,
\* result or error
C1_TerminalIsFinal ==
    [][\A k \in DOMAIN store :
          store[k].status \in Terminal => store'[k] = store[k]]_vars

\* C2: in every state of the store a COMPLETED record has a result and no
\* error, a FAILED record has an error {code, message} and no result, and a
\* PENDING or PROCESSING record has neither
C2_RecordShape ==
    \A k \in DOMAIN store :
        LET rec == store[k] IN
        /\ rec.status \in Statuses
        /\ rec.status = "COMPLETED" => rec.result # None /\ rec.error = None
        /\ rec.status = "FAILED" =>
              /\ rec.result = None
              /\ rec.error # None
              /\ DOMAIN rec.error[1] = {"code", "message"}
        /\ rec.status \in {"PENDING", "PROCESSING"} =>
              rec.result = None /\ rec.error = None

C2_Witness ==
    \E k1, k2 \in DOMAIN store :
        /\ store[k1].status = "COMPLETED"
        /\ store[k2].status = "FAILED"
        /\ \E r \in RunIds : runs[r].task_id = k1 /\ Launched(r) /\ Done(r)

\* C3: a poll never observes COMPLETED without a result or FAILED without an
\* error, however it interleaves with the orchestrators' store updates: the
\* status, result and error it reports are those of one whole record, the
\* PENDING record of a submission or a record some run wrote for that key
C3_PollSeesWholeRecord ==
    resp # None /\ resp[1].data # None =>
        LET d == resp[1].data[1] IN
        /\ d.status = "COMPLETED" => d.result # None /\ resp[1].error = None
        /\ d.status = "FAILED" => resp[1].error # None
        /\ d.status \in {"PENDING", "PROCESSING"} =>
              d.result = None /\ resp[1].error = None
        /\ LET seen == TaskRecord(d.status, d.result, resp[1].error) IN
           \E r \in RunIds :
              /\ runs[r].task_id = StrKey(resp[1].attemptId)
              /\ \/ seen = TaskRecord("PENDING", None, None)
                 \/ \E i \in 1..Len(runs[r].writes) : runs[r].writes[i] = seen

\* the latest poll saw PROCESSING for a key whose record an orchestrator has
\* since moved to a terminal state
C3_Witness ==
    /\ resp # None /\ resp[1].data # None
    /\ resp[1].data[1].status = "PROCESSING"
    /\ \E r \in RunIds :
          /\ runs[r].task_id = StrKey(resp[1].attemptId)
          /\ Launched(r) /\ Done(r)
          /\ store[runs[r].task_id].status \in Terminal

\* C5: a poll of a submitted key made before the background run of that
\* submission has started observes PENDING or PROCESSING, never COMPLETED or
\* FAILED
C5_PollBeforeRunStarts ==
    [][\A k \in Keys :
          (/\ Poll(k)
           /\ \E r \in RunIds : runs[r].task_id = StrKey(k) /\ runs[r].pc = "queued")
          => /\ resp'[1].data # None
             /\ resp'[1].data[1].status \in {"PENDING", "PROCESSING"}]_vars

\* C6: a poll of a key that was never created answers 404 TASK_NOT_FOUND and
\* creates no record
C6_PollUnknownKey ==
    [][\A k \in Keys :
          (Poll(k) /\ StrKey(k) \notin DOMAIN store)
          => /\ resp'[1].http = 404
             /\ resp'[1].success = FALSE
             /\ resp'[1].data = None
             /\ resp'[1].error # None
             /\ resp'[1].error[1].code = "TASK_NOT_FOUND"
             /\ store' = store]_vars

\* a poll answered 404 for a key that is still absent while another key exists
C6_Witness ==
    /\ resp # None
    /\ resp[1].http = 404
    /\ StrKey(resp[1].attemptId) \notin DOMAIN store
    /\ DOMAIN store # {}

\* the terminal record a finished run wrote
TerminalWrite(r) == Last(runs[r].writes)

ShortTextRecord == TaskRecord("COMPLETED", Some(ShortTextResult), None)

C8_ProviderCalls ==
    \A r \in RunIds :
        /\ TrimmedShort(runs[r].user_text)
           => runs[r].calls.scoring = 0 /\ runs[r].calls.feedback = 0
        /\ (Done(r) /\ ~TrimmedShort(runs[r].user_text) /\ ~NoCriteria(runs[r].criteria))
           => runs[r].calls.scoring >= 1 /\ runs[r].calls.feedback >= 1

\* a finished short-text run and a finished long-text run side by side
C8_Witness ==
    \E r1, r2 \in RunIds :
        /\ Done(r1) /\ TrimmedShort(runs[r1].user_text) /\ ~NoCriteria(runs[r1].criteria)
        /\ Done(r2) /\ ~TrimmedShort(runs[r2].user_text) /\ ~NoCriteria(runs[r2].criteria)
        /\ runs[r2].calls.scoring = 1 /\ runs[r2].calls.feedback = 1

\* C9: a run in which a branch failed ends FAILED; a run that went through
\* gather ends COMPLETED only when both branches succeeded, and then with the
\* scoring result's overall_score and level and the feedback result as feedback
C9_NoPartialCompleted ==
    \A r \in RunIds :
        Done(r) /\ Launched(r) =>
            /\ (runs[r].score.st = "failed" \/ runs[r].feedback.st = "failed")
               => TerminalWrite(r).status = "FAILED"
            /\ TerminalWrite(r).status = "COMPLETED"
               => /\ runs[r].score.st = "ok" /\ runs[r].feedback.st = "ok"
                  /\ TerminalWrite(r).result # None
                  /\ TerminalWrite(r).result[1].overall_score
                        = runs[r].score.val[1].overall_score
                  /\ TerminalWrite(r).result[1].level = runs[r].score.val[1].level
                  /\ TerminalWrite(r).result[1].feedback = runs[r].feedback.val[1]

\* one run ended FAILED with scoring ok and feedback failed, another ended
\* COMPLETED with the scoring result's values
C9_Witness ==
    \E r1, r2 \in RunIds :
        /\ Done(r1) /\ runs[r1].score.st = "ok" /\ runs[r1].feedback.st = "failed"
        /\ TerminalWrite(r1).status = "FAILED"
        /\ Done(r2) /\ runs[r2].score.st = "ok" /\ runs[r2].feedback.st = "ok"
        /\ TerminalWrite(r2).status = "COMPLETED"
        /\ TerminalWrite(r2).result[1].overall_score = 150

C4_RunReachesTerminal ==
    \A r \in 1..MaxRuns :
        (r \in RunIds) ~>
            (r \in RunIds /\ Done(r) /\ TerminalWrite(r).status \in Terminal)

\* a run that went through gather has finished with its terminal record in the
\* store while no poll was ever made
C4_Witness ==
    /\ resp = None
    /\ \E r \in RunIds :
          /\ Launched(r) /\ Done(r)
          /\ store[runs[r].task_id] = TerminalWrite(r)
          /\ TerminalWrite(r).status \in Terminal

\* the messages the except handler can write: the fixed sentence followed by
\* the error code
GenericMessages ==
    {<<"MSG_ANALYSIS_FAILED", c>> :
        c \in {"INTERNAL_ERROR", "LLM_PROVIDER_ERROR", "EMBEDDING_FAILURE"}}

FailedRun(r) == Done(r) /\ TerminalWrite(r).status = "FAILED"

\* C11: the message of a FAILED record is the fixed sentence with the error
\* code, never the exception's text: two runs that failed with the same error
\* code ended with identical error records, whatever the exception texts were
C11_FailureMessageGeneric ==
    \A r1, r2 \in RunIds :
        FailedRun(r1) /\ FailedRun(r2) =>
            /\ TerminalWrite(r1).error[1].message \in GenericMessages
            /\ TerminalWrite(r1).error[1].code = TerminalWrite(r2).error[1].code
               => TerminalWrite(r1).error = TerminalWrite(r2).error

\* two runs ended FAILED with INTERNAL_ERROR from different exception texts:
\* one from a branch's unparsable provider output, one from the criteria check
C11_Witness ==
    \E r1, r2 \in RunIds :
        /\ FailedRun(r1) /\ Launched(r1)
        /\ FailedRun(r2) /\ ~Launched(r2) /\ NoCriteria(runs[r2].criteria)
        /\ TerminalWrite(r1).error[1].code = "INTERNAL_ERROR"
        /\ TerminalWrite(r2).error[1].code = "INTERNAL_ERROR"

\* C20: every COMPLETED record holds an overall_score in 0..100 and a level
\* in 1..5, whatever the scoring call returned
C20_ScoreInRange ==
    \A k \in DOMAIN store :
        store[k].status = "COMPLETED" =>
            /\ store[k].result[1].overall_score \in 0..100
            /\ store[k].result[1].level \in 1..5

---------------------------------------------------------------------------
(* Embedding service *)

\* AppException(code, message, status_code)
AppException(code, message, status_code) ==
    [code |-> code, message |-> message, status_code |-> status_code]

\* any other exception, with its text
OtherException(text) == [text |-> text]

IsAppException(e) == "code" \in DOMAIN e

\* the AppException generate_embedding raises
EmbeddingFailure(message) == AppException("EMBEDDING_FAILURE", message, 500)

\* the vector model.encode computes for a text
Encode(text) == <<"vec", text>>

\* EmbeddingService.generate_embedding(text) on a service whose model is
\* loaded or not (loaded); load_ok and encode_ok are the outcomes of
\* SentenceTransformer(...) in initialize() and of model.encode.  The result
\* holds the service's model state afterwards and the vector or the exception.
GenerateEmbedding(loaded, text, load_ok, encode_ok) ==
    LET now_loaded == loaded \/ load_ok IN
    IF ~now_loaded
    THEN [model |-> FALSE, value |-> None,
          exc |-> Some(EmbeddingFailure("MSG_EMBEDDING_MODEL_NOT_LOADED"))]
    ELSE IF ~encode_ok
    THEN [model |-> TRUE, value |-> None,
          exc |-> Some(EmbeddingFailure("MSG_EMBEDDING_GENERATION_ERROR"))]
    ELSE [model |-> TRUE, value |-> Some(Encode(text)), exc |-> None]

---------------------------------------------------------------------------
(* Knowledge refinement: endpoint refine_candidates_batch and               *)
(* KnowledgeService.refine_candidates_batch                                 *)

MaxItems == 3

\* the i-th RawFeedbackItem of a request
RawFeedbackItem(i) == [id |-> i, keyword |-> "kw", rawFeedback |-> T_hi]

\* request.items
ItemBatches == {[i \in 1..n |-> RawFeedbackItem(i)] : n \in 0..MaxItems}

\* response.text of the refinement call: plain, padded, whitespace only
T_padded == <<" ", "o", "k", "\n">>

T_space == <<" ">>

RefinedTexts == {T_hi, T_padded, T_space}

\* variant: no batch is taken for empty
EmptyBatch_Never(items) == FALSE

\* `not request.items`
EmptyBatch(items) == Len(items) = 0

RefineCandidatesResponseData(processedCount, candidates) ==
    [processedCount |-> processedCount, candidates |-> candidates]

RefineCandidatesResponse(success, data, error) ==
    [success |-> success, data |-> data, error |-> error]

\* the endpoint's answer to an empty item list
EmptyBatchResponse ==
    RefineCandidatesResponse(FALSE, RefineCandidatesResponseData(0, <<>>),
        Some([code |-> "EMPTY_BATCH_DATA", message |-> "MSG_INPUT_DATA_EMPTY"]))

\* variant: every candidate carries the id 1
KnowledgeCandidate_IdOfFirst(item, refined_text, embedding) ==
    [id |-> 1, keyword |-> item.keyword,
     refinedText |-> refined_text, embedding |-> embedding]

KnowledgeCandidate(item, refined_text, embedding) ==
    [id |-> item.id, keyword |-> item.keyword,
     refinedText |-> refined_text, embedding |-> embedding]

\* one process_item coroutine: st is "new", "calling" (the refinement call is
\* awaited) or "done"; val is its return value, a candidate or None; caught is
\* the exception its except clause caught, if any (history)
ItemTask(st, val, caught) == [st |-> st, val |-> val, caught |-> caught]

\* process_item after the refinement call returned text: strip, embed, build
\* the candidate; an exception of the embedding is caught and None returned.
\* The result holds the finished task and the embedding service's model state.
ProcessItem(item, text, loaded, load_ok, encode_ok) ==
    LET refined_text == Strip(text)
        emb == GenerateEmbedding(loaded, refined_text, load_ok, encode_ok) IN
    [model |-> emb.model,
     task |-> IF emb.exc # None
              THEN ItemTask("done", None, emb.exc)
              ELSE ItemTask("done",
                            Some(KnowledgeCandidate(item, refined_text, emb.value[1])),
                            None)]

\* `[r for r in processed_results if r is not None]`
RECURSIVE Candidates(_)
Candidates(processed_results) ==
    IF processed_results = <<>> THEN <<>>
    ELSE IF Head(processed_results) = None
         THEN Candidates(Tail(processed_results))
         ELSE <<Head(processed_results)[1]>> \o Candidates(Tail(processed_results))

\* variant: processedCount counts the items, not the candidates
RefineResult_CountsItems(processed_results) ==
    RefineCandidatesResponseData(Len(processed_results), Candidates(processed_results))

\* the value refine_candidates_batch returns once gather has all results
RefineResult(processed_results) ==
    LET candidates == Candidates(processed_results) IN
    RefineCandidatesResponseData(Len(candidates), candidates)

\* a refine request: the items, whether the service was invoked, the
\* process_item tasks, the position of the endpoint ("gather" or "done"), the
\* provider calls issued (history) and the response
RefineRequest(items) ==
    IF EmptyBatch(items)
    THEN [items |-> items, invoked |-> FALSE, tasks |-> <<>>, pc |-> "done",
          calls |-> [reasoning |-> 0, embedding |-> 0],
          resp |-> Some(EmptyBatchResponse)]
    ELSE [items |-> items, invoked |-> TRUE,
          tasks |-> [i \in 1..Len(items) |-> ItemTask("new", None, None)],
          pc |-> "gather",
          calls |-> [reasoning |-> 0, embedding |-> 0],
          resp |-> None]

RefineIdle == IF refine = None THEN TRUE ELSE refine[1].pc = "done"

ItemIds == IF refine = None THEN {} ELSE 1..Len(refine[1].tasks)

\* the endpoint is called: an empty list is answered at once, otherwise the
\* service creates one process_item coroutine per item and awaits gather
RefineBatch(items) ==
    /\ RefineIdle
    /\ refine' = Some(RefineRequest(items))
    /\ UNCHANGED <<lifecycle_vars, model, evaluation>>

\* process_item up to its await: the prompt is formatted, the refinement call
\* issued; gather starts the tasks in the order of the items
RefineCall(i) ==
    /\ refine[1].tasks[i].st = "new"
    /\ \A j \in 1..(i - 1) : refine[1].tasks[j].st # "new"
    /\ refine' = Some([refine[1] EXCEPT !.tasks[i].st = "calling",
                                        !.calls.reasoning = @ + 1])
    /\ UNCHANGED <<lifecycle_vars, model, evaluation>>

\* the refinement call returns a response with text: strip, embed, candidate
RefineReturn(i, text, load_ok, encode_ok) ==
    /\ refine[1].tasks[i].st = "calling"
    /\ LET out == ProcessItem(refine[1].items[i], text, model, load_ok, encode_ok) IN
       /\ model' = out.model
       /\ refine' = Some([refine[1] EXCEPT !.tasks[i] = out.task,
                                           !.calls.embedding = @ + 1])
    /\ UNCHANGED <<lifecycle_vars, evaluation>>

\* the refinement call raises, or its response has no text (response.text
\* raises): the except clause returns None
RefineRaise(i, err) ==
    /\ refine[1].tasks[i].st = "calling"
    /\ refine' = Some([refine[1] EXCEPT !.tasks[i] =
                            ItemTask("done", None, Some(OtherException(err)))])
    /\ UNCHANGED <<lifecycle_vars, model, evaluation>>

\* gather has every task's result: the service returns, the endpoint answers
RefineJoin ==
    /\ refine # None
    /\ refine[1].pc = "gather"
    /\ \A i \in ItemIds : refine[1].tasks[i].st = "done"
    /\ LET processed_results == [i \in ItemIds |-> refine[1].tasks[i].val] IN
       refine' = Some([refine[1] EXCEPT
                         !.pc = "done",
                         !.resp = Some(RefineCandidatesResponse(
                                          TRUE, RefineResult(processed_results), None))])
    /\ UNCHANGED <<lifecycle_vars, model, evaluation>>

RefineNext ==
    \/ \E items \in ItemBatches : RefineBatch(items)
    \/ \E i \in ItemIds : RefineCall(i)
    \/ \E i \in ItemIds, text \in RefinedTexts, load_ok, encode_ok \in BOOLEAN :
          RefineReturn(i, text, load_ok, encode_ok)
    \/ \E i \in ItemIds, err \in ErrSamples : RefineRaise(i, err)
    \/ RefineJoin

RefineSpec == Init /\ [][RefineNext]_vars

---------------------------------------------------------------------------
(* Properties of the refinement pipeline *)

RefineDone == refine # None /\ refine[1].pc = "done"

\* C12: a refine request with an empty item list is answered success=false,
\* EMPTY_BATCH_DATA, processedCount 0 and no candidates; the pipeline is not
\* invoked and no reasoning or embedding call is made, whatever the state of
\* the embedding model
C12_EmptyBatchRejected ==
    (refine # None /\ Len(refine[1].items) = 0) =>
        /\ refine[1].pc = "done"
        /\ refine[1].resp # None
        /\ refine[1].resp[1].success = FALSE
        /\ refine[1].resp[1].error # None
        /\ refine[1].resp[1].error[1].code = "EMPTY_BATCH_DATA"
        /\ refine[1].resp[1].data.processedCount = 0
        /\ refine[1].resp[1].data.candidates = <<>>
        /\ refine[1].invoked = FALSE
        /\ refine[1].tasks = <<>>
        /\ refine[1].calls.reasoning = 0 /\ refine[1].calls.embedding = 0

\* an empty batch was rejected while the embedding model is loaded
C12_Witness ==
    /\ refine # None
    /\ Len(refine[1].items) = 0
    /\ refine[1].resp # None
    /\ model = TRUE

\* the items of the request whose processing failed
FailedItems == {i \in ItemIds : refine[1].tasks[i].caught # None}

\* C13: a finished request with N > 0 items of which M failed is answered
\* success=true with processedCount = N - M and exactly N - M candidates, the
\* candidates of the items that did not fail, for every set of failing items
C13_PartialFailure ==
    (RefineDone /\ Len(refine[1].items) > 0) =>
        LET N == Len(refine[1].items)
            M == Cardinality(FailedItems)
            data == refine[1].resp[1].data IN
        /\ refine[1].resp[1].success = TRUE
        /\ refine[1].resp[1].error = None
        /\ data.processedCount = N - M
        /\ Len(data.candidates) = N - M
        /\ {data.candidates[j].id : j \in 1..Len(data.candidates)}
              = {refine[1].items[i].id : i \in ItemIds \ FailedItems}

\* a finished batch of two items of which the first failed in the embedding
\* and the second produced a candidate
C13_Witness ==
    /\ RefineDone
    /\ Len(refine[1].items) = 2
    /\ FailedItems = {1}
    /\ refine[1].tasks[1].caught[1] = EmbeddingFailure("MSG_EMBEDDING_GENERATION_ERROR")
    /\ refine[1].resp[1].data.processedCount = 1

---------------------------------------------------------------------------
(* Knowledge evaluation: endpoint evaluate_knowledge and                    *)
(* KnowledgeService.evaluate_knowledge.  The engine has one await, the      *)
(* reasoning call; parsing, validation and the embedding calls (synchronous *)
(* functions) run in the segment after it.                                  *)

MaxResults == 2

MaxSimilars == 2

\* the length limit of candidate.text
TextLimit == 5000

\* a candidate text of n characters
TextOfLen(n) == [i \in 1..n |-> "a"]

CandidateTexts == {TextOfLen(n) : n \in {2, TextLimit, TextLimit + 1}}

\* the i-th EvaluateSimilarInput of a request
EvaluateSimilarInput(i) ==
    [id |-> i, keyword |-> "kw", similarity |-> 1, text |-> T_hi]

\* request.similars
SimilarSets == {[i \in 1..n |-> EvaluateSimilarInput(i)] : n \in 0..MaxSimilars}

\* elements of the results array the reasoning provider may return
R_update ==
    [decision |-> "UPDATE", targetId |-> 7, finalContent |-> <<"X">>,
     reasoning |-> <<"r", "1">>]

R_ignore == [decision |-> "IGNORE", finalContent |-> <<"Y">>]

R_maybe == [decision |-> "MAYBE", targetId |-> 8, finalContent |-> <<"Z">>]

R_bare == [decision |-> "UPDATE", targetId |-> 9]

R_blank == [decision |-> "UPDATE", finalContent |-> <<>>]

R_nodecision == [finalContent |-> <<"W">>]

ResultItems == {R_update, R_ignore, R_maybe, R_bare, R_blank, R_nodecision}

ResultArrays == UNION {[1..n -> ResultItems] : n \in 0..MaxResults}

\* what the text of a reply holds once the code fences are removed: a JSON
\* object (t = "object", v its members), a JSON array, or no JSON at all
JsonObject(v) == [t |-> "object", v |-> v]

JsonArray(v) == [t |-> "array", v |-> v]

NotJson == [t |-> "invalid"]

ReplyBodies ==
    {JsonObject([results |-> a]) : a \in ResultArrays}
        \cup {JsonObject([answer |-> "none"]), JsonArray(<<>>), NotJson}

\* response.text: the body, wrapped in ```json ... ``` or not
ReplyTexts == [fenced : BOOLEAN, body : ReplyBodies]

\* response.text.replace("```json", "").replace("```", "").strip()
CleanedText(text) == [text EXCEPT !.fenced = FALSE]

\* json.loads: the parsed value, or None for JSONDecodeError
JsonLoads(text) ==
    IF text.fenced \/ text.body.t = "invalid" THEN None ELSE Some(text.body)

\* ValueError("INVALID_LLM_RESPONSE")
E_invalid_llm ==
    <<"I", "N", "V", "A", "L", "I", "D", "_", "L", "L", "M", "_",
      "R", "E", "S", "P", "O", "N", "S", "E">>

\* str(AttributeError) of data.get on a list
E_no_get == <<"n", "o", " ", "g", "e", "t">>

\* the members of KnowledgeAction
KnowledgeActions == {"UPDATE", "IGNORE"}

\* result_item.get(key): the value or None
Get(d, key) == IF key \in DOMAIN d THEN Some(d[key]) ELSE None

\* variant: the decision string is taken as it is
ValidDecision_Raw(result_item) == DictGet(result_item, "decision", "IGNORE")

\* the validated decision: KnowledgeAction(decision_str), IGNORE on ValueError
ValidDecision(result_item) ==
    LET decision_str == DictGet(result_item, "decision", "IGNORE") IN
    IF decision_str \in KnowledgeActions THEN decision_str ELSE "IGNORE"

\* variant: every non-empty finalContent is embedded
ShouldEmbed_AnyContent(decision, final_content) ==
    final_content # None /\ final_content[1] # <<>>

\* `decision == KnowledgeAction.UPDATE and final_content`
ShouldEmbed(decision, final_content) ==
    /\ decision = "UPDATE"
    /\ final_content # None /\ final_content[1] # <<>>

\* str(result_item.get("targetId")) if it is not None else None
TargetId(result_item) ==
    IF Get(result_item, "targetId") # None
    THEN Some(<<"str", result_item.targetId>>)
    ELSE None

KnowledgeEvaluationResult(decision, targetId, finalContent, finalVector, reasoning) ==
    [decision |-> decision, targetId |-> targetId, finalContent |-> finalContent,
     finalVector |-> finalVector, reasoning |-> reasoning]

BatchKnowledgeEvaluationResult(results) == [results |-> results]

KnowledgeEvaluationResponse(success, data, error) ==
    [success |-> success, data |-> data, error |-> error]

\* variant: a result is put in front of the results so far
Emit_Front(processed_results, result) == <<result>> \o processed_results

\* processed_results.append(result)
Emit(processed_results, result) == Append(processed_results, result)

\* the state of the loop over results_data: the results so far, the embedding
\* service's model state, the texts passed to generate_embedding so far, and
\* the exception that ended the loop, if any
LoopState(processed_results, loaded, embedded, exc) ==
    [processed_results |-> processed_results, model |-> loaded,
     embedded |-> embedded, exc |-> exc]

\* one iteration of the loop; fail_at is the number of the embedding call of
\* this request whose model.encode raises (0: none)
ProcessResult(lp, result_item, load_ok, fail_at) ==
    LET decision == ValidDecision(result_item)
        final_content == Get(result_item, "finalContent")
        reasoning == DictGet(result_item, "reasoning", <<>>) IN
    IF ShouldEmbed(decision, final_content)
    THEN LET emb == GenerateEmbedding(lp.model, final_content[1], load_ok,
                                      Len(lp.embedded) + 1 # fail_at)
             embedded == Append(lp.embedded, final_content[1]) IN
         IF emb.exc # None
         THEN LoopState(lp.processed_results, emb.model, embedded, emb.exc)
         ELSE LoopState(
                  Emit(lp.processed_results,
                       KnowledgeEvaluationResult(decision, TargetId(result_item),
                                                 final_content, emb.value, reasoning)),
                  emb.model, embedded, None)
    ELSE LoopState(
             Emit(lp.processed_results,
                  KnowledgeEvaluationResult(decision, TargetId(result_item),
                                            final_content, None, reasoning)),
             lp.model, lp.embedded, None)

\* `for result_item in results_data`, left when an iteration raises
RECURSIVE ProcessResults(_, _, _, _)
ProcessResults(lp, results_data, load_ok, fail_at) ==
    IF results_data = <<>> \/ lp.exc # None
    THEN lp
    ELSE ProcessResults(ProcessResult(lp, Head(results_data), load_ok, fail_at),
                        Tail(results_data), load_ok, fail_at)

\* how evaluate_knowledge ends: it returns ret or raises exc; model and
\* embedded are the embedding service's model state and the texts embedded
Outcome(ret, exc, loaded, embedded) ==
    [ret |-> ret, exc |-> exc, model |-> loaded, embedded |-> embedded]

\* evaluate_knowledge after the reasoning call returned text
EvaluateKnowledge(text, loaded, load_ok, fail_at) ==
    LET data == JsonLoads(CleanedText(text)) IN
    IF data = None
    THEN Outcome(None, Some(OtherException(E_invalid_llm)), loaded, <<>>)
    ELSE IF data[1].t # "object"
    THEN Outcome(None, Some(OtherException(E_no_get)), loaded, <<>>)
    ELSE LET results_data == DictGet(data[1].v, "results", <<>>) IN
         IF results_data = <<>>
         THEN Outcome(Some(BatchKnowledgeEvaluationResult(<<>>)), None, loaded, <<>>)
         ELSE LET lp == ProcessResults(LoopState(<<>>, loaded, <<>>, None),
                                       results_data, load_ok, fail_at) IN
              IF lp.exc # None
              THEN Outcome(None, lp.exc, lp.model, lp.embedded)
              ELSE Outcome(Some(BatchKnowledgeEvaluationResult(lp.processed_results)),
                           None, lp.model, lp.embedded)

\* `len(request.candidate.text) > 5000`
TextTooLong(text) == Len(text) > TextLimit

\* the endpoint's answer to a candidate text over the limit
TextTooLongResponse ==
    KnowledgeEvaluationResponse(FALSE,
        KnowledgeEvaluationResult("IGNORE", None, None, None, <<"Validation Failed">>),
        Some([code |-> "TEXT_TOO_LONG", message |-> "MSG_TEXT_TOO_LONG"]))

\* variant: no `except AppException` clause
EvaluateResponse_NoAppException(out) ==
    IF out.exc = None
    THEN KnowledgeEvaluationResponse(TRUE, out.ret[1], None)
    ELSE KnowledgeEvaluationResponse(FALSE,
             KnowledgeEvaluationResult("IGNORE", None, None, None, <<"Internal Error">>),
             Some([code |-> "INTERNAL_ERROR", message |-> "MSG_EVALUATION_UNEXPECTED_ERROR"]))

\* the endpoint's answer to what the service returned or raised
EvaluateResponse(out) ==
    IF out.exc = None
    THEN KnowledgeEvaluationResponse(TRUE, out.ret[1], None)
    ELSE IF IsAppException(out.exc[1])
    THEN KnowledgeEvaluationResponse(FALSE,
             KnowledgeEvaluationResult("IGNORE", None, None, None,
                                       <<"ErrorCode", out.exc[1].code>>),
             Some([code |-> out.exc[1].code, message |-> out.exc[1].message]))
    ELSE KnowledgeEvaluationResponse(FALSE,
             KnowledgeEvaluationResult("IGNORE", None, None, None, <<"Internal Error">>),
             Some([code |-> "INTERNAL_ERROR", message |-> "MSG_EVALUATION_UNEXPECTED_ERROR"]))

\* the line of the prompt for one similar item
SimilarLine(s) == [id |-> s.id, keyword |-> s.keyword,
                   similarity |-> s.similarity, content |-> s.text]

\* similars_text: the lines of all similar items, or the fixed placeholder
SimilarsText(similars) ==
    IF similars = <<>>
    THEN <<"(No similar knowledge found)">>
    ELSE [i \in 1..Len(similars) |-> SimilarLine(similars[i])]

\* variant: one prompt per similar item
Prompts_PerTarget(candidate_text, similars) ==
    [i \in 1..Len(similars) |->
        [candidate |-> candidate_text, similars |-> <<SimilarLine(similars[i])>>]]

\* the prompts evaluate_knowledge sends to the reasoning provider: one, with
\* the candidate and all similar items
Prompts(candidate_text, similars) ==
    <<[candidate |-> candidate_text, similars |-> SimilarsText(similars)]>>

\* an evaluation request: the length of the candidate text and the similar
\* items, whether the engine was invoked, the position of the endpoint
\* ("calling": the reasoning call is awaited, or "done"), and history: the
\* provider calls issued, the texts embedded, the reply text, what the engine
\* raised, the response
EvaluationRequest(text, similars) ==
    IF TextTooLong(text)
    THEN [text_len |-> Len(text), similars |-> similars, invoked |-> FALSE,
          pc |-> "done", calls |-> [reasoning |-> 0, embedding |-> 0],
          embedded |-> <<>>, reply |-> None, exc |-> None,
          resp |-> Some(TextTooLongResponse)]
    ELSE [text_len |-> Len(text), similars |-> similars, invoked |-> TRUE,
          pc |-> "calling",
          calls |-> [reasoning |-> Len(Prompts(text, similars)), embedding |-> 0],
          embedded |-> <<>>, reply |-> None, exc |-> None,
          resp |-> None]

\* the request after the engine returned or raised
EvaluationDone(req, reply, out) ==
    [req EXCEPT !.pc = "done",
                !.calls.embedding = Len(out.embedded),
                !.embedded = out.embedded,
                !.reply = reply,
                !.exc = out.exc,
                !.resp = Some(EvaluateResponse(out))]

EvalIdle == IF evaluation = None THEN TRUE ELSE evaluation[1].pc = "done"

EvalCalling == IF evaluation = None THEN FALSE ELSE evaluation[1].pc = "calling"

\* the endpoint is called: a text over the limit is answered at once,
\* otherwise the engine builds the prompt and awaits the reasoning call
Evaluate(text, similars) ==
    /\ EvalIdle
    /\ evaluation' = Some(EvaluationRequest(text, similars))
    /\ UNCHANGED <<lifecycle_vars, model, refine>>

\* the reasoning call returns a response with text: parse, validate, embed,
\* answer
EvalReturn(text, load_ok, fail_at) ==
    /\ EvalCalling
    /\ LET out == EvaluateKnowledge(text, model, load_ok, fail_at) IN
       /\ model' = out.model
       /\ evaluation' = Some(EvaluationDone(evaluation[1], Some(text), out))
    /\ UNCHANGED <<lifecycle_vars, refine>>

\* the reasoning call raises, or its response has no text: the engine
\* re-raises, the endpoint answers
EvalRaise(err) ==
    /\ EvalCalling
    /\ evaluation' = Some(EvaluationDone(evaluation[1], None,
                             Outcome(None, Some(OtherException(err)), model, <<>>)))
    /\ UNCHANGED <<lifecycle_vars, model, refine>>

EvalNext ==
    \/ \E text \in CandidateTexts, similars \in SimilarSets : Evaluate(text, similars)
    \/ \E text \in ReplyTexts, load_ok \in BOOLEAN, fail_at \in 0..MaxResults :
          EvalReturn(text, load_ok, fail_at)
    \/ \E err \in ErrSamples : EvalRaise(err)

EvalSpec == Init /\ [][EvalNext]_vars

---------------------------------------------------------------------------
(* Properties of the evaluation engine *)

EvalDone == IF evaluation = None THEN FALSE ELSE evaluation[1].pc = "done"

\* the finished request got a reply that holds a JSON object with a results
\* member, fenced or not
Parsed ==
    IF EvalDone /\ evaluation[1].reply # None
    THEN LET body == evaluation[1].reply[1].body IN
         IF body.t = "object" THEN "results" \in DOMAIN body.v ELSE FALSE
    ELSE FALSE

\* the finished request got a reply that does not hold such an object
Unparsable == EvalDone /\ evaluation[1].reply # None /\ ~Parsed

\* the results array of the provider's reply
ProviderResults == evaluation[1].reply[1].body.v.results

Succeeded == EvalDone /\ evaluation[1].resp[1].success = TRUE

\* the results the caller received
Emitted == evaluation[1].resp[1].data.results

\* the provider asked for an update and gave a non-empty content
WantsVector(item) ==
    /\ "decision" \in DOMAIN item /\ item.decision = "UPDATE"
    /\ "finalContent" \in DOMAIN item /\ Len(item.finalContent) > 0

\* the provider gave no decision, or one that is neither UPDATE nor IGNORE
InvalidDecision(item) ==
    IF "decision" \in DOMAIN item
    THEN item.decision \notin {"UPDATE", "IGNORE"}
    ELSE TRUE

\* a member of a provider's result as an optional value
Member(item, key) == IF key \in DOMAIN item THEN <<item[key]>> ELSE <<>>

\* C14: the embedding is called exactly for the entries whose validated
\* decision is UPDATE and whose finalContent is non-empty, in their order, and
\* its vector is that entry's finalVector; every other entry has no
\* finalVector and causes no embedding call, with a finalContent or not
C14_EmbedOnlyUpdateWithContent ==
    /\ (evaluation # None /\ ~Parsed) => evaluation[1].embedded = <<>>
    /\ Parsed =>
          LET wanted == SelectSeq(ProviderResults, WantsVector)
              texts == [i \in 1..Len(wanted) |-> wanted[i].finalContent]
              embedded == evaluation[1].embedded IN
          /\ Len(embedded) <= Len(texts)
          /\ embedded = SubSeq(texts, 1, Len(embedded))
          /\ Succeeded =>
                /\ embedded = texts
                /\ \A i \in 1..Len(Emitted) :
                      IF WantsVector(ProviderResults[i])
                      THEN Emitted[i].finalVector
                              = <<Encode(ProviderResults[i].finalContent)>>
                      ELSE Emitted[i].finalVector = <<>>

\* an IGNORE entry with a finalContent was emitted without a vector next to an
\* UPDATE entry with its vector, after one embedding call
C14_Witness ==
    /\ Parsed /\ Succeeded
    /\ ProviderResults = <<R_ignore, R_update>>
    /\ Emitted[1].finalContent # <<>> /\ Emitted[1].finalVector = <<>>
    /\ Emitted[2].finalVector # <<>>
    /\ evaluation[1].calls.embedding = 1

\* C15: an entry whose decision is missing or outside {UPDATE, IGNORE} is
\* emitted as IGNORE at its position; the other entries keep their decision and
\* every entry keeps its content; the call fails only when an embedding call
\* failed, never because of a decision
C15_InvalidDecisionCoerced ==
    Parsed =>
        /\ ~Succeeded =>
              /\ evaluation[1].exc # None
              /\ "code" \in DOMAIN evaluation[1].exc[1]
              /\ evaluation[1].exc[1].code = "EMBEDDING_FAILURE"
              /\ Len(evaluation[1].embedded) > 0
        /\ Succeeded =>
              /\ Len(Emitted) = Len(ProviderResults)
              /\ \A i \in 1..Len(Emitted) :
                    /\ Emitted[i].decision
                          = IF InvalidDecision(ProviderResults[i])
                            THEN "IGNORE"
                            ELSE ProviderResults[i].decision
                    /\ Emitted[i].finalContent = Member(ProviderResults[i], "finalContent")

\* a MAYBE entry was emitted as IGNORE in front of an UPDATE entry that kept
\* its decision and got its vector
C15_Witness ==
    /\ Parsed /\ Succeeded
    /\ ProviderResults = <<R_maybe, R_update>>
    /\ Emitted[1].decision = "IGNORE"
    /\ Emitted[2].decision = "UPDATE" /\ Emitted[2].finalVector # <<>>

\* C16: a reply that is not JSON, or not a JSON object with a results array,
\* makes the call fail with error code INVALID_LLM_RESPONSE and no results
C16_UnparsableIsInvalidLlmResponse ==
    Unparsable =>
        /\ evaluation[1].resp[1].success = FALSE
        /\ evaluation[1].resp[1].error # None
        /\ evaluation[1].resp[1].error[1].code = "INVALID_LLM_RESPONSE"
        /\ "results" \notin DOMAIN evaluation[1].resp[1].data

C18_OneReasoningCall ==
    (evaluation # None /\ evaluation[1].invoked) =>
        evaluation[1].calls.reasoning = 1

\* a request with two similar items ended after its reasoning call raised
C18_Witness ==
    /\ EvalDone
    /\ evaluation[1].invoked
    /\ Len(evaluation[1].similars) = 2
    /\ evaluation[1].reply = None
    /\ evaluation[1].resp[1].success = FALSE
    /\ evaluation[1].calls.reasoning = 1

\* C19: every result emitted with decision UPDATE has a finalContent
C19_UpdateHasContent ==
    Succeeded =>
        \A i \in 1..Len(Emitted) :
            Emitted[i].decision = "UPDATE" => Emitted[i].finalContent # <<>>

---------------------------------------------------------------------------
(* Further properties of the task lifecycle *)

ProcessingRecord == TaskRecord("PROCESSING", None, None)

\* C21: the records a run writes are, in order, one PROCESSING record, written
\* before the validation and before any provider call, then exactly one
\* terminal record: a run that has not started wrote nothing, a run waiting
\* in gather wrote PROCESSING only, a finished run wrote PROCESSING and one
\* COMPLETED or FAILED record
C21_WriteOrder ==
    \A r \in RunIds :
        LET w == runs[r].writes IN
        /\ runs[r].pc = "queued" => w = <<>>
        /\ runs[r].pc = "gather" => w = <<ProcessingRecord>>
        /\ Done(r) => /\ Len(w) = 2
                      /\ w[1] = ProcessingRecord
                      /\ w[2].status \in Terminal
        /\ (runs[r].calls.scoring > 0 \/ runs[r].calls.feedback > 0)
           => (w # <<>> /\ w[1] = ProcessingRecord)

\* one run finished COMPLETED through gather, another finished FAILED at the
\* criteria check, each with two writes
C21_Witness ==
    \E r1, r2 \in RunIds :
        /\ Done(r1) /\ Launched(r1) /\ runs[r1].writes[2].status = "COMPLETED"
        /\ Done(r2) /\ ~Launched(r2) /\ runs[r2].writes[2].status = "FAILED"
        /\ Len(runs[r1].writes) = 2 /\ Len(runs[r2].writes) = 2

\* C23: a finished run whose criteria is empty or missing ended FAILED with
\* error code INVALID_CRITERIA and the criteria-missing message, and issued no
\* Scoring or Feedback call
C23_EmptyCriteriaCode ==
    \A r \in RunIds :
        Done(r) /\ NoCriteria(runs[r].criteria) =>
            /\ runs[r].calls.scoring = 0 /\ runs[r].calls.feedback = 0
            /\ TerminalWrite(r).status = "FAILED"
            /\ TerminalWrite(r).error[1].code = "INVALID_CRITERIA"
            /\ TerminalWrite(r).error[1].message = <<"MSG_CRITERIA_MISSING">>

---------------------------------------------------------------------------
(* The orchestrator's failure path over more exception texts: runs that     *)
(* pass validation and whose branches return or raise.                      *)

\* exception texts that name both families, the status 500, the embedding
E_llm_embedding ==
    <<"L", "L", "M", " ", "e", "m", "b", "e", "d", "d", "i", "n", "g">>

E_500 == <<"E", "r", "r", "o", "r", " ", "5", "0", "0">>

E_embedding == <<"E", "m", "b", "e", "d", "d", "i", "n", "g">>

ClassifyTexts == ErrSamples \cup {E_llm_embedding, E_500, E_embedding, E_attr}

ClassifyNext ==
    \/ \E k \in Keys : Submit(k, T_abcde, {"accuracy"}, <<>>)
    \/ \E r \in RunIds : StartRun(r)
    \/ \E r \in RunIds : ScoreCall(r)
    \/ \E r \in RunIds : FeedbackCall(r)
    \/ \E r \in RunIds : ScoreReturn(r, J_good)
    \/ \E r \in RunIds, e \in ClassifyTexts : ScoreRaise(r, e)
    \/ \E r \in RunIds : FeedbackReturn(r, F_full)
    \/ \E r \in RunIds, e \in ClassifyTexts : FeedbackRaise(r, e)
    \/ \E r \in RunIds : Join(r)

ClassifySpec == Init /\ [][ClassifyNext]_vars

\* the lower-cased text contains the word
Mentions(text, word) == Contains(word, Lower(text))

\* the claim's table from error text to error code
ExpectedCode(text) ==
    IF \/ Mentions(text, <<"l", "l", "m">>)
       \/ Mentions(text, <<"g", "e", "m", "i", "n", "i">>)
       \/ Mentions(text, <<"5", "0", "0">>)
    THEN "LLM_PROVIDER_ERROR"
    ELSE IF \/ Mentions(text, <<"e", "m", "b", "e", "d", "d", "i", "n", "g">>)
            \/ Mentions(text, <<"v", "e", "c", "t", "o", "r">>)
         THEN "EMBEDDING_FAILURE"
         ELSE "INTERNAL_ERROR"

\* C22: when the orchestrator resumes from gather with an exception, the
\* record it writes is FAILED with the code the table gives for the
\* exception's text: LLM_PROVIDER_ERROR for "llm", "gemini" or "500" (also when
\* "embedding" or "vector" occurs too), else EMBEDDING_FAILURE for "embedding"
\* or "vector", else INTERNAL_ERROR
C22_CodeFromText ==
    [][\A r \in RunIds :
          (runs[r].pc = "gather" /\ runs[r].exc # None /\ runs'[r].pc = "done")
          => /\ store'[runs[r].task_id].status = "FAILED"
             /\ store'[runs[r].task_id].error[1].code = ExpectedCode(runs[r].exc[1])
             /\ store'[runs[r].task_id].error[1].code
                   \in {"LLM_PROVIDER_ERROR", "EMBEDDING_FAILURE", "INTERNAL_ERROR"}]_vars

\* two runs ended FAILED, one classified to the reasoning-provider family and
\* one to the embedding family
C22_Witness ==
    \E r1, r2 \in RunIds :
        /\ FailedRun(r1) /\ TerminalWrite(r1).error[1].code = "LLM_PROVIDER_ERROR"
        /\ FailedRun(r2) /\ TerminalWrite(r2).error[1].code = "EMBEDDING_FAILURE"

\* C24: both provider calls of a run are issued before the orchestrator
\* resumes from gather; the first exception handed to gather stays the one the
\* orchestrator gets; it resumes with it whatever the state of the other
\* branch and writes FAILED with the code of that exception's text; once the
\* run has finished, a branch that returns or raises changes no record
C24_FirstErrorWins ==
    [][\A r \in RunIds :
          /\ (runs[r].pc = "gather" /\ runs[r].exc # None /\ runs'[r].pc = "gather")
             => runs'[r].exc = runs[r].exc
          /\ (runs[r].pc = "gather" /\ runs'[r].pc = "done")
             => /\ runs[r].calls.scoring = 1 /\ runs[r].calls.feedback = 1
                /\ runs[r].exc # None
                   => store'[runs[r].task_id]
                         = TaskRecord("FAILED", None,
                              Some([code |-> ExpectedCode(runs[r].exc[1]),
                                    message |-> <<"MSG_ANALYSIS_FAILED",
                                                  ExpectedCode(runs[r].exc[1])>>]))
          /\ (Done(r) /\ runs'[r] # runs[r]) => store' = store]_vars

\* a run ended FAILED after its scoring branch failed, while its feedback
\* call is still outstanding
C24_Witness ==
    \E r \in RunIds :
        /\ FailedRun(r)
        /\ runs[r].score.st = "failed"
        /\ runs[r].feedback.st = "calling"
        /\ store[runs[r].task_id] = TerminalWrite(r)

---------------------------------------------------------------------------
(* The lifecycle when the provider may leave the calls of the first run     *)
(* unanswered: the event loop still runs every ready step of both runs, and *)
(* the calls of the second run return or raise.                             *)

\* the steps of run r that wait for no provider
LocalStep(r) ==
    /\ r \in RunIds
    /\ \/ StartRun(r)
       \/ ScoreCall(r)
       \/ FeedbackCall(r)
       \/ Join(r)

StallFairness == WF_vars(LocalStep(1)) /\ WF_vars(RunStep(2))

StallSpec == Init /\ [][LiveNext]_vars /\ StallFairness

\* a provider call of the run is outstanding
CallOutstanding(r) ==
    runs[r].score.st = "calling" \/ runs[r].feedback.st = "calling"

\* C25 as stated: as long as a provider call of a run has not returned, the
\* run has written no terminal record
C25_StalledStaysProcessing ==
    \A r \in RunIds : CallOutstanding(r) => ~Done(r)

\* C25 amended: while a provider call of a run is outstanding and no branch
\* has failed, the run has written PROCESSING and nothing else; the only
\* terminal record a run writes with a call outstanding is FAILED, after its
\* other branch failed; and a second run whose calls return or raise reaches
\* a terminal record whether the first run's calls are answered or not
C25_StallOrFirstError ==
    /\ [](\A r \in RunIds :
            CallOutstanding(r) =>
                /\ (runs[r].score.st # "failed" /\ runs[r].feedback.st # "failed")
                   => /\ runs[r].pc = "gather"
                      /\ runs[r].writes = <<ProcessingRecord>>
                /\ Done(r)
                   => /\ TerminalWrite(r).status = "FAILED"
                      /\ (runs[r].score.st = "failed" \/ runs[r].feedback.st = "failed"))
    /\ ((2 \in RunIds) ~> (2 \in RunIds /\ Done(2) /\ TerminalWrite(2).status \in Terminal))

\* the first run waits in gather for its scoring call, its feedback has
\* returned and its record is PROCESSING, while the second run, on another
\* key, has finished through gather
C25_Witness ==
    /\ Len(runs) = 2
    /\ runs[1].pc = "gather"
    /\ runs[1].score.st = "calling" /\ runs[1].feedback.st = "ok"
    /\ store[runs[1].task_id].status = "PROCESSING"
    /\ runs[2].task_id # runs[1].task_id
    /\ Done(2) /\ Launched(2)
    /\ store[runs[2].task_id].status \in Terminal

---------------------------------------------------------------------------
(* Further properties of the refinement pipeline and the evaluation engine *)

\* C26: an item's pipeline is suspended at its embedding call as it is at
\* its reasoning call: the step that issues an embedding call leaves the item
\* unfinished, so that steps of other items can come before its completion
C26_EmbeddingYields ==
    [][IF refine = None \/ refine' = None
       THEN TRUE
       ELSE refine'[1].calls.embedding = refine[1].calls.embedding + 1
            => \A i \in ItemIds :
                  refine[1].tasks[i].st = "calling" => refine'[1].tasks[i].st # "done"]_vars

\* the item's processing ended without an exception
ItemSucceeded(i) ==
    refine[1].tasks[i].st = "done" /\ refine[1].tasks[i].caught = None

\* the item's embedding call was made: the item succeeded, or the exception
\* caught is the embedding's
ItemEmbedded(i) ==
    IF refine[1].tasks[i].st # "done" THEN FALSE
    ELSE IF refine[1].tasks[i].caught = None THEN TRUE
    ELSE "code" \in DOMAIN refine[1].tasks[i].caught[1]

\* C27: every item causes at most one reasoning call and, only after that
\* call returned text, at most one embedding call; an item yields a
\* candidate, with its id and keyword, exactly when both succeeded; the
\* response holds exactly one candidate per such item and none for the others
C27_OneCandidatePerSuccess ==
    refine # None =>
        LET req == refine[1]
            done_ok == {i \in ItemIds : ItemSucceeded(i)} IN
        /\ req.calls.reasoning = Cardinality({i \in ItemIds : req.tasks[i].st # "new"})
        /\ req.calls.embedding = Cardinality({i \in ItemIds : ItemEmbedded(i)})
        /\ \A i \in ItemIds :
              /\ req.tasks[i].val # None <=> ItemSucceeded(i)
              /\ ItemSucceeded(i)
                 => /\ req.tasks[i].val[1].id = req.items[i].id
                    /\ req.tasks[i].val[1].keyword = req.items[i].keyword
        /\ (req.pc = "done" /\ Len(req.items) > 0)
           => LET candidates == req.resp[1].data.candidates IN
              /\ Len(candidates) = Cardinality(done_ok)
              /\ {candidates[j].id : j \in 1..Len(candidates)}
                    = {req.items[i].id : i \in done_ok}
              /\ \A j \in 1..Len(candidates) :
                    \E i \in done_ok : candidates[j] = req.tasks[i].val[1]

\* a finished batch of three items: the first yielded a candidate, the second
\* failed in its reasoning call, the third in its embedding call
C27_Witness ==
    /\ RefineDone
    /\ Len(refine[1].items) = 3
    /\ ItemSucceeded(1)
    /\ ~ItemSucceeded(2) /\ ~ItemEmbedded(2)
    /\ ~ItemSucceeded(3) /\ ItemEmbedded(3)
    /\ refine[1].calls.reasoning = 3 /\ refine[1].calls.embedding = 2
    /\ Len(refine[1].resp[1].data.candidates) = 1

\* the engine ended with the embedding service's exception
EmbeddingRaised ==
    IF EvalDone /\ evaluation[1].exc # None
    THEN "code" \in DOMAIN evaluation[1].exc[1]
    ELSE FALSE

\* C28: when an embedding call of an evaluation fails, the call is answered
\* success=false with error code EMBEDDING_FAILURE and without any result,
\* also for the entries validated and embedded before; a successful answer
\* holds no entry whose embedding was due and is missing
C28_EmbeddingFailureFailsCall ==
    /\ EmbeddingRaised =>
          /\ Parsed
          /\ Len(evaluation[1].embedded) >= 1
          /\ evaluation[1].resp[1].success = FALSE
          /\ evaluation[1].resp[1].error # None
          /\ evaluation[1].resp[1].error[1].code = "EMBEDDING_FAILURE"
          /\ "results" \notin DOMAIN evaluation[1].resp[1].data
    /\ (Parsed /\ Succeeded) =>
          \A i \in 1..Len(Emitted) :
              WantsVector(ProviderResults[i]) => Emitted[i].finalVector # <<>>

\* the second of two UPDATE entries failed in its embedding call after the
\* first was embedded
C28_Witness ==
    /\ EmbeddingRaised
    /\ ProviderResults = <<R_update, R_update>>
    /\ Len(evaluation[1].embedded) = 2
    /\ evaluation[1].resp[1].success = FALSE


----------------------------------------------------------------------------
(* Submission when the task record cannot be created *)

\* the JSONResponse of the except clause of submit_analysis
SubmissionFailed ==
    [http |-> 500, success |-> FALSE, data |-> None,
     error |-> Some([code |-> "INTERNAL_ERROR",
                     message |-> "MSG_TASK_REGISTRATION_FAILED",
                     detail |-> None])]

\* variant: add_task is reached whether or not create_task returned
RegisteredTasks_Always(rs, run, created) == Append(rs, run)

\* the background tasks after submit_analysis: add_task follows create_task
\* inside the try block, so it is reached only when create_task returned
RegisteredTasks(rs, run, created) ==
    IF created THEN Append(rs, run) ELSE rs

\* submit_analysis with both outcomes of task_service.create_task: it returns
\* the attempt id after creating the PENDING record (created), or it raises
\* and the except clause answers
SubmitAnalysis(attempt_id, user_text, criteria, history, created) ==
    /\ Len(runs) < MaxRuns
    /\ store' = IF created THEN CreateTask(store, attempt_id) ELSE store
    /\ runs' = RegisteredTasks(runs, NewRun(attempt_id, user_text, criteria, history),
                               created)
    /\ resp' = IF created THEN resp ELSE Some(SubmissionFailed)
    /\ UNCHANGED knowledge_vars

SubmitNext ==
    \/ \E k \in Keys, t \in LiveTexts, c \in CriteriaSamples, created \in BOOLEAN :
          SubmitAnalysis(k, t, c, <<>>, created)
    \/ \E r \in RunIds : StartRun(r)
    \/ \E r \in RunIds : ScoreCall(r)
    \/ \E r \in RunIds : FeedbackCall(r)
    \/ \E r \in RunIds : ProviderAnswersScoring(r)
    \/ \E r \in RunIds : ProviderAnswersFeedback(r)
    \/ \E r \in RunIds : Join(r)

SubmitSpec == Init /\ [][SubmitNext]_vars

\* the step is a submission that was answered with the 500 response
RejectedStep ==
    /\ resp' # resp
    /\ IF resp' = None \/ resp'[1].error = None
       THEN FALSE
       ELSE resp'[1].http = 500 /\ resp'[1].error[1].code = "INTERNAL_ERROR"

\* C29: a background run is registered only after its task record was
\* created: every registered run's key has a record in the store, and a
\* submission whose task creation raised is answered 500 INTERNAL_ERROR
\* without registering a run or writing a record, so that no run of that
\* submission ever starts
C29_RegisteredAfterCreated ==
    /\ [](\A r \in RunIds : runs[r].task_id \in DOMAIN store)
    /\ [][RejectedStep => runs' = runs /\ store' = store]_vars

\* a submission for a key was rejected before any record of that key existed,
\* and a later accepted submission ran to its end
C29_Witness ==
    /\ resp = Some(SubmissionFailed)
    /\ StrKey(2) \notin DOMAIN store
    /\ Len(runs) = 1
    /\ runs[1].task_id = StrKey(1)
    /\ runs[1].pc = "done"

====
